---- MODULE Spec2Model ----
(***************************************************************************)
(* Model of src/server.js: the WhatsApp service's session state            *)
(* (whatsappClient, qrCodeData, clientStatus), the lifecycle event         *)
(* handlers registered by initWhatsAppClient, the recovery timer, and the  *)
(* HTTP routes with their suspension points (await).                       *)
(*                                                                         *)
(* The external client library (whatsapp-web.js) is the environment: a     *)
(* constructed client moves pairing -> authed -> ready, may fail           *)
(* authentication while pairing, and may emit 'disconnected' at any time   *)
(* until it has done so or has been logged out.                            *)
(***************************************************************************)
EXTENDS Integers, Sequences, FiniteSets, TLC

\* ---- bounds of the model ------------------------------------------------
MaxClients == 3      \* clients constructed over one run
MaxInflight == 1     \* requests suspended on an await at the same time

\* ---- program constants --------------------------------------------------
API_TOKEN == "secret"

Null == 0
Clients == 1..MaxClients
Undefined == "<undefined>"

VARIABLES
  whatsappClient,   \* the handle: Null or the id of a constructed client
  qrCodeData,       \* the pairing token: Null or the id of the client that emitted it
  clientStatus,     \* "disconnected" | "connecting" | "connected"
  constructed,      \* number of `new Client` so far; ids are 1..constructed
  phase,            \* the library's own state of each client
  timers,           \* the pending setTimeout callbacks, oldest first
  inflight,         \* requests suspended on an await
  last              \* what the last step was and what it answered / called

vars == <<whatsappClient, qrCodeData, clientStatus, constructed, phase, timers, inflight, last>>

\* A client the library still runs: it can emit events and take calls.
Live(c) == phase[c] \in {"pairing", "authed", "failed", "ready"}

\* ---- requests ------------------------------------------------------------
\* An Authorization header: absent, or its words split at ' '.
Headers ==
  { [present |-> FALSE, words |-> <<>>],
    [present |-> TRUE, words |-> <<"Bearer">>],
    [present |-> TRUE, words |-> <<"Bearer", "wrong">>],
    [present |-> TRUE, words |-> <<"Bearer", "secret">>] }

\* token = authHeader && authHeader.split(' ')[1]
TokenOf(h) ==
  IF ~h.present THEN Undefined
  ELSE IF Len(h.words) >= 2 THEN h.words[2] ELSE Undefined

\* A variant that lets any token that is present through.
authenticateToken_AnyToken(h) ==
  IF TokenOf(h) = Undefined THEN "Unauthorized" ELSE "next"

\* authenticateToken: 401 without a token, 403 on a mismatch, else next()
authenticateToken(h) ==
  IF TokenOf(h) = Undefined THEN "Unauthorized"
  ELSE IF TokenOf(h) # API_TOKEN THEN "Forbidden"
  ELSE "next"

NoCalls == {}
NoArg == <<>>
Step(op, h, resp, made, calls) ==
  [op |-> op, hdr |-> h, resp |-> resp, made |-> made, calls |-> calls, data |-> <<>>]
NoHdr == [present |-> FALSE, words |-> <<>>]

\* A call on the external client: the function, the handle it is invoked on
\* (Null: a TypeError) and clientStatus at the time of the call.
Call(fn, arg) == [fn |-> fn, on |-> whatsappClient, st |-> clientStatus, arg |-> arg]

\* Observation only: what has happened since each pending timer was armed.
Mark(m) == [i \in DOMAIN timers |-> [timers[i] EXCEPT !.marks = @ \cup {m}]]
\* The same, for the timers whose delay has not elapsed yet.
MarkWaiting(m) ==
  [i \in DOMAIN timers |->
     IF timers[i].due THEN timers[i] ELSE [timers[i] EXCEPT !.marks = @ \cup {m}]]

\* ---- initWhatsAppClient ---------------------------------------------------
\* clientStatus = 'connecting'; whatsappClient = new Client(...); handlers; initialize()
initWhatsAppClient ==
  /\ constructed < MaxClients
  /\ constructed' = constructed + 1
  /\ clientStatus' = "connecting"
  /\ whatsappClient' = constructed + 1
  /\ phase' = [phase EXCEPT ![constructed + 1] = "pairing"]
  /\ UNCHANGED qrCodeData

Init ==
  /\ whatsappClient = Null
  /\ qrCodeData = Null
  /\ clientStatus = "disconnected"
  /\ constructed = 0
  /\ phase = [c \in Clients |-> "none"]
  /\ timers = <<>>
  /\ inflight = {}
  /\ last = Step("boot", NoHdr, "None", Null, NoCalls)

\* app.listen callback: the one unconditional startup call
Startup ==
  /\ constructed = 0
  /\ initWhatsAppClient
  /\ last' = Step("listen", NoHdr, "None", constructed + 1, NoCalls)
  /\ UNCHANGED <<timers, inflight>>

Started == constructed > 0
Event(op, c) == [Step(op, NoHdr, "None", Null, NoCalls) EXCEPT !.data = <<c>>]

\* ---- lifecycle event handlers (closures registered per client) -----------
\* whatsappClient.on('qr'): qrCodeData = qr
OnQr(c) ==
  /\ phase[c] = "pairing"
  /\ qrCodeData' = c
  /\ last' = Event("qr", c)
  /\ UNCHANGED <<whatsappClient, clientStatus, constructed, phase, timers, inflight>>

\* whatsappClient.on('authenticated'): qrCodeData = null
OnAuthenticated(c) ==
  /\ phase[c] = "pairing"
  /\ phase' = [phase EXCEPT ![c] = "authed"]
  /\ qrCodeData' = Null
  /\ last' = Event("authenticated", c)
  /\ UNCHANGED <<whatsappClient, clientStatus, constructed, timers, inflight>>

\* whatsappClient.on('auth_failure'): clientStatus = 'disconnected'
OnAuthFailure(c) ==
  /\ phase[c] = "pairing"
  /\ phase' = [phase EXCEPT ![c] = "failed"]
  /\ clientStatus' = "disconnected"
  /\ last' = Event("auth_failure", c)
  /\ UNCHANGED <<whatsappClient, qrCodeData, constructed, timers, inflight>>

\* whatsappClient.on('ready'): clientStatus = 'connected'; qrCodeData = null
OnReady(c) ==
  /\ phase[c] = "authed"
  /\ phase' = [phase EXCEPT ![c] = "ready"]
  /\ clientStatus' = "connected"
  /\ qrCodeData' = Null
  /\ timers' = Mark("ready")
  /\ last' = Event("ready", c)
  /\ UNCHANGED <<whatsappClient, constructed, inflight>>

\* whatsappClient.on('disconnected'): status reset, handle dropped, timer armed
OnDisconnected(c) ==
  /\ Live(c)
  /\ phase' = [phase EXCEPT ![c] = "gone"]
  /\ clientStatus' = "disconnected"
  /\ whatsappClient' = Null
  /\ timers' = Append(timers, [by |-> c, due |-> FALSE, marks |-> {}])
  /\ last' = Event("disconnected", c)
  /\ UNCHANGED <<qrCodeData, constructed, inflight>>

\* ---- the recovery timer ---------------------------------------------------
\* Every timer is armed with the same delay (5000 ms), so the timers reach their
\* deadline in the order they were armed: the delay elapses for the oldest
\* waiting timer first.  Only then may its callback run.
DelayElapsed ==
  \E i \in DOMAIN timers :
    /\ ~timers[i].due
    /\ \A j \in 1..(i - 1) : timers[j].due
    /\ timers' = [timers EXCEPT ![i].due = TRUE]
    /\ last' = Event("delay", timers[i].by)
    /\ UNCHANGED <<whatsappClient, qrCodeData, clientStatus, constructed, phase, inflight>>

\* setTimeout runs its callback no earlier than the delay
TimerDue == timers # <<>> /\ Head(timers).due

\* A variant that tests for the wrong status.
TimerStillDisconnected_Wrong == clientStatus = "connected"

\* if (clientStatus === 'disconnected')
TimerStillDisconnected == clientStatus = "disconnected"

\* the setTimeout callback of the 'disconnected' handler
RecoveryTimer ==
  /\ TimerDue
  /\ timers' = Tail(timers)
  /\ IF TimerStillDisconnected
     THEN /\ initWhatsAppClient
          /\ last' = [Step("timer", NoHdr, "None", constructed + 1, NoCalls)
                        EXCEPT !.data = <<Head(timers).by>>]
     ELSE /\ last' = Event("timer", Head(timers).by)
          /\ UNCHANGED <<whatsappClient, qrCodeData, clientStatus, constructed, phase>>
  /\ UNCHANGED inflight

\* ---- routes ---------------------------------------------------------------
Req(kind, stage, client, arg) ==
  [kind |-> kind, stage |-> stage, client |-> client, arg |-> arg, tok |-> Null]
\* GET /api/qrcode suspended on toDataURL(tok)
QrReq(tok) == [Req("qrcode", "toDataURL", Null, NoArg) EXCEPT !.tok = tok]
CanSuspend(r) == Cardinality(inflight) < MaxInflight /\ r \notin inflight

\* A request stopped by authenticateToken: res.status(401|403), next() not called
Rejected(op, h) ==
  /\ authenticateToken(h) # "next"
  /\ last' = Step(op, h, authenticateToken(h), Null, NoCalls)
  /\ UNCHANGED <<whatsappClient, qrCodeData, clientStatus, constructed, phase, timers, inflight>>

\* A request answered from the state alone
Answer(op, h, resp) ==
  /\ last' = Step(op, h, resp, Null, NoCalls)
  /\ UNCHANGED <<whatsappClient, qrCodeData, clientStatus, constructed, phase, timers, inflight>>

\* app.get('/health'): no authentication
Health(h) ==
  /\ Started
  /\ Answer("health", h, "OK")

\* app.get('/api/status')
StatusRequest(h) ==
  /\ Started
  /\ \/ Rejected("status", h)
     \/ /\ authenticateToken(h) = "next"
        /\ IF whatsappClient = Null THEN Answer("status", h, "NotInitialized")
           ELSE IF clientStatus = "connected" /\ phase[whatsappClient] # "ready"
             \* whatsappClient.info is undefined before 'ready': the read throws
             THEN Answer("status", h, "UpstreamFailure")
             ELSE Answer("status", h, "OK")

\* A variant without the handle check.
QrNeedsInit_Always == TRUE

\* if (!whatsappClient) in GET /api/qrcode
QrNeedsInit == whatsappClient = Null

\* app.get('/api/qrcode') up to its await
QrRequest(h) ==
  /\ Started
  /\ \/ Rejected("qrcode", h)
     \/ /\ authenticateToken(h) = "next"
        /\ IF clientStatus = "connected" THEN Answer("qrcode", h, "AlreadyConnected")
           ELSE IF QrNeedsInit
             THEN /\ initWhatsAppClient
                  /\ timers' = MarkWaiting("init")
                  /\ last' = Step("qrcode", h, "Initializing", constructed + 1, NoCalls)
                  /\ UNCHANGED inflight
             ELSE IF qrCodeData = Null THEN Answer("qrcode", h, "QRNotReady")
             ELSE /\ CanSuspend(QrReq(qrCodeData))
                  /\ inflight' = inflight \cup {QrReq(qrCodeData)}
                  /\ last' = Step("qrcode", h, "Pending", Null, NoCalls)
                  /\ UNCHANGED <<whatsappClient, qrCodeData, clientStatus, constructed,
                                 phase, timers>>

\* GET /api/qrcode after await qrcode.toDataURL(qrCodeData): the image is of the
\* token read before the await, qrCodeData in the body is read after it
QrRendered(r) ==
  /\ r \in inflight /\ r.kind = "qrcode"
  /\ inflight' = inflight \ {r}
  /\ \/ last' = [Step("qrcode_done", NoHdr, "QR", Null, NoCalls)
                   EXCEPT !.data = <<r.tok, qrCodeData>>]
     \/ last' = Step("qrcode_done", NoHdr, "UpstreamFailure", Null, NoCalls)
  /\ UNCHANGED <<whatsappClient, qrCodeData, clientStatus, constructed, phase, timers>>

\* app.post('/api/logout') up to await whatsappClient.logout()
LogoutRequest(h) ==
  /\ Started
  /\ \/ Rejected("logout", h)
     \/ /\ authenticateToken(h) = "next"
        /\ IF whatsappClient = Null THEN Answer("logout", h, "NotInitialized")
           ELSE /\ CanSuspend(Req("logout", "logout", whatsappClient, NoArg))
                /\ inflight' = inflight \cup {Req("logout", "logout", whatsappClient, NoArg)}
                /\ last' = Step("logout", h, "Pending", Null, {Call("logout", NoArg)})
                /\ UNCHANGED <<whatsappClient, qrCodeData, clientStatus, constructed,
                               phase, timers>>

\* The catch block of POST /api/logout: status 500, nothing else
LogoutCatch(r) ==
  /\ last' = [Step("logout_done", NoHdr, "UpstreamFailure", Null, NoCalls)
                EXCEPT !.data = <<r.client>>]
  /\ UNCHANGED <<whatsappClient, qrCodeData, clientStatus, constructed, phase, timers>>

\* POST /api/logout after the await: reset on return, catch on throw
LogoutDone(r) ==
  /\ r \in inflight /\ r.kind = "logout"
  /\ inflight' = inflight \ {r}
  /\ \/ /\ whatsappClient' = Null
        /\ clientStatus' = "disconnected"
        /\ qrCodeData' = Null
        /\ phase' = [phase EXCEPT ![r.client] = "gone"]
        /\ timers' = Mark("logout")
        /\ last' = [Step("logout_done", NoHdr, "OK", Null, NoCalls)
                      EXCEPT !.data = <<r.client>>]
        /\ UNCHANGED constructed
     \/ LogoutCatch(r)

\* ---- POST /api/send --------------------------------------------------------
Digits == {"0", "1", "2", "3", "4", "5", "6", "7", "8", "9"}
Phones == { <<>>, <<"+">>, <<"+", "1", " ", "5">> }
Bodies == [phone : Phones, message : {"", "hi"}, media_url : {"", "u"}]

\* The body is not read before authenticateToken has called next()
BodiesOf(h) == IF authenticateToken(h) = "next" THEN Bodies ELSE {CHOOSE b \in Bodies : TRUE}

\* phone.replace(/\D/g, '')
RECURSIVE StripNonDigits(_)
StripNonDigits(p) ==
  IF p = <<>> THEN <<>>
  ELSE IF Head(p) \in Digits THEN <<Head(p)>> \o StripNonDigits(Tail(p))
  ELSE StripNonDigits(Tail(p))

\* phone.replace(/\D/g, '') + '@c.us'
FormatPhone(p) == StripNonDigits(p) \o <<"@c.us">>

\* A variant that checks the handle only.
NotReady_HandleOnly == whatsappClient = Null

\* if (!whatsappClient || clientStatus !== 'connected')
NotReady == whatsappClient = Null \/ clientStatus # "connected"

\* A variant that checks the phone only.
InvalidSend_PhoneOnly(b) == b.phone = <<>>

\* if (!phone || (!message && !media_url))
InvalidSend(b) == b.phone = <<>> \/ (b.message = "" /\ b.media_url = "")

\* What fetchMedia resolves to: null (it catches its own errors) or a payload
Media == {Null, 1}
\* if (!mediaData)
MediaAbsent(m) == m = Null

FetchCall == [fn |-> "fetchMedia", on |-> Null, st |-> clientStatus, arg |-> NoArg]

\* A request that stays suspended: one more await
Suspend(op, h, calls, old, new) ==
  /\ new \notin inflight
  /\ Cardinality((inflight \ old) \cup {new}) <= MaxInflight
  /\ inflight' = (inflight \ old) \cup {new}
  /\ last' = Step(op, h, "Pending", Null, calls)
  /\ UNCHANGED <<whatsappClient, qrCodeData, clientStatus, constructed, phase, timers>>

\* A variant whose catch block resets the session.
Finish_Resetting(op, r, resp, calls) ==
  /\ inflight' = inflight \ {r}
  /\ last' = Step(op, NoHdr, resp, Null, calls)
  /\ IF resp = "UpstreamFailure"
     THEN /\ whatsappClient' = Null /\ qrCodeData' = Null
          /\ clientStatus' = "disconnected"
     ELSE UNCHANGED <<whatsappClient, qrCodeData, clientStatus>>
  /\ UNCHANGED <<constructed, phase, timers>>

\* A suspended request answered at its resumption
Finish(op, r, resp, calls) ==
  /\ inflight' = inflight \ {r}
  /\ last' = Step(op, NoHdr, resp, Null, calls)
  /\ UNCHANGED <<whatsappClient, qrCodeData, clientStatus, constructed, phase, timers>>

\* The same steps, with what the step read (a body, a payload, a list) and
\* what it returned kept in last.data
AnswerWith(op, h, resp, data) ==
  /\ last' = [Step(op, h, resp, Null, NoCalls) EXCEPT !.data = data]
  /\ UNCHANGED <<whatsappClient, qrCodeData, clientStatus, constructed, phase, timers, inflight>>

SuspendWith(op, h, calls, old, new, data) ==
  /\ new \notin inflight
  /\ Cardinality((inflight \ old) \cup {new}) <= MaxInflight
  /\ inflight' = (inflight \ old) \cup {new}
  /\ last' = [Step(op, h, "Pending", Null, calls) EXCEPT !.data = data]
  /\ UNCHANGED <<whatsappClient, qrCodeData, clientStatus, constructed, phase, timers>>

FinishWith(op, r, resp, calls, data) ==
  /\ inflight' = inflight \ {r}
  /\ last' = [Step(op, NoHdr, resp, Null, calls) EXCEPT !.data = data]
  /\ UNCHANGED <<whatsappClient, qrCodeData, clientStatus, constructed, phase, timers>>

\* whatsappClient.sendMessage(formattedPhone, ...) after the media fetch:
\* a TypeError on a null handle lands in the catch block
SendAfterFetch(r, m) ==
  IF whatsappClient = Null
  THEN FinishWith("send_fetched", r, "UpstreamFailure", {Call("sendMessage", r.arg)}, <<m>>)
  ELSE SuspendWith("send_fetched", NoHdr, {Call("sendMessage", r.arg)}, {r},
                   Req("send", "sendMessage", whatsappClient, r.arg), <<m>>)

\* app.post('/api/send') up to its first await
SendRequest(h, b) ==
  /\ Started
  /\ \/ Rejected("send", h)
     \/ /\ authenticateToken(h) = "next"
        /\ IF NotReady THEN Answer("send", h, "NotConnected")
           ELSE IF InvalidSend(b) THEN AnswerWith("send", h, "InvalidInput", <<b>>)
           ELSE IF b.media_url # ""
             THEN SuspendWith("send", h, {FetchCall}, {},
                              Req("send", "fetchMedia", Null, FormatPhone(b.phone)), <<b>>)
             ELSE SuspendWith("send", h, {Call("sendMessage", FormatPhone(b.phone))}, {},
                              Req("send", "sendMessage", whatsappClient, FormatPhone(b.phone)),
                              <<b>>)

\* POST /api/send resumed from await fetchMedia(media_url)
SendFetched(r, m) ==
  /\ r \in inflight /\ r.kind = "send" /\ r.stage = "fetchMedia"
  /\ IF MediaAbsent(m)
     THEN FinishWith("send_fetched", r, "MediaFetchFailed", NoCalls, <<m>>)
     ELSE SendAfterFetch(r, m)

\* POST /api/send resumed from await whatsappClient.sendMessage(...)
SendDone(r) ==
  /\ r \in inflight /\ r.kind = "send" /\ r.stage = "sendMessage"
  /\ \/ Finish("send_done", r, "OK", NoCalls)
     \/ Finish("send_done", r, "UpstreamFailure", NoCalls)

\* ---- GET /api/contacts, GET /api/groups -----------------------------------
ContactsRequest(h) ==
  /\ Started
  /\ \/ Rejected("contacts", h)
     \/ /\ authenticateToken(h) = "next"
        /\ IF NotReady THEN Answer("contacts", h, "NotConnected")
           ELSE Suspend("contacts", h, {Call("getContacts", NoArg)}, {},
                        Req("contacts", "getContacts", whatsappClient, NoArg))

\* The flags of a contact that the route reads
Contact(me, group, wa) == [isMe |-> me, isGroup |-> group, isWAContact |-> wa]
ContactKinds == [isMe : BOOLEAN, isGroup : BOOLEAN, isWAContact : BOOLEAN]
\* What getContacts resolves to: no contact, one contact of any kind, or a
\* list with several kinds
ContactLists ==
  {<<>>} \cup {<<c>> : c \in ContactKinds}
         \cup {<<Contact(TRUE, FALSE, TRUE), Contact(FALSE, FALSE, TRUE),
                 Contact(FALSE, TRUE, FALSE), Contact(FALSE, FALSE, FALSE)>>}

\* contact => !contact.isMe && !contact.isGroup && !contact.isWAContact
ContactKept(c) == ~c.isMe /\ ~c.isGroup /\ ~c.isWAContact
\* contacts.filter(...): the map that follows keeps one entry per contact
FormattedContacts(cs) == SelectSeq(cs, ContactKept)

\* resumed from await whatsappClient.getContacts()
ContactsDone(r) ==
  /\ r \in inflight /\ r.kind = "contacts"
  /\ \/ \E cs \in ContactLists :
          FinishWith("contacts_done", r, "OK", NoCalls, <<cs, FormattedContacts(cs)>>)
     \/ Finish("contacts_done", r, "UpstreamFailure", NoCalls)

GroupsRequest(h) ==
  /\ Started
  /\ \/ Rejected("groups", h)
     \/ /\ authenticateToken(h) = "next"
        /\ IF NotReady THEN Answer("groups", h, "NotConnected")
           ELSE Suspend("groups", h, {Call("getChats", NoArg)}, {},
                        Req("groups", "getChats", whatsappClient, NoArg))

GroupsDone(r) ==
  /\ r \in inflight /\ r.kind = "groups"
  /\ \/ Finish("groups_done", r, "OK", NoCalls)
     \/ Finish("groups_done", r, "UpstreamFailure", NoCalls)

\* ---- GET /api/groups/:groupId/members -------------------------------------
\* What getChatById resolves to: it throws, no chat, a chat that is no group,
\* or a group with 0 or more participants.
Chats == {"throws", "absent", "not_a_group", "empty_group", "group"}

\* participants.map(async p => whatsappClient.getContactById(...)): the calls are
\* made in the resumption itself, on whatever whatsappClient is by then
MembersAfterChat(r) ==
  IF whatsappClient = Null
  THEN Finish("members_chat", r, "UpstreamFailure", {Call("getContactById", NoArg)})
  ELSE Suspend("members_chat", NoHdr, {Call("getContactById", NoArg)}, {r},
               Req("members", "getContactById", whatsappClient, NoArg))

MembersRequest(h) ==
  /\ Started
  /\ \/ Rejected("members", h)
     \/ /\ authenticateToken(h) = "next"
        /\ IF NotReady THEN Answer("members", h, "NotConnected")
           ELSE Suspend("members", h, {Call("getChatById", NoArg)}, {},
                        Req("members", "getChatById", whatsappClient, NoArg))

\* resumed from await whatsappClient.getChatById(groupId)
MembersChat(r, chat) ==
  /\ r \in inflight /\ r.kind = "members" /\ r.stage = "getChatById"
  /\ CASE chat = "throws" -> Finish("members_chat", r, "UpstreamFailure", NoCalls)
       [] chat \in {"absent", "not_a_group"} -> Finish("members_chat", r, "NotFound", NoCalls)
       [] chat = "empty_group" -> Finish("members_chat", r, "OK", NoCalls)
       [] chat = "group" -> MembersAfterChat(r)

\* resumed from await Promise.all(...)
MembersDone(r) ==
  /\ r \in inflight /\ r.kind = "members" /\ r.stage = "getContactById"
  /\ \/ Finish("members_done", r, "OK", NoCalls)
     \/ Finish("members_done", r, "UpstreamFailure", NoCalls)

\* ---- the system -------------------------------------------------------------
Next ==
  \/ Startup
  \/ \E c \in Clients : OnQr(c)
  \/ \E c \in Clients : OnAuthenticated(c)
  \/ \E c \in Clients : OnAuthFailure(c)
  \/ \E c \in Clients : OnReady(c)
  \/ \E c \in Clients : OnDisconnected(c)
  \/ DelayElapsed
  \/ RecoveryTimer
  \/ \E h \in {NoHdr} : Health(h)
  \/ \E h \in Headers : StatusRequest(h)
  \/ \E h \in Headers : QrRequest(h)
  \/ \E r \in inflight : QrRendered(r)
  \/ \E h \in Headers : LogoutRequest(h)
  \/ \E r \in inflight : LogoutDone(r)
  \/ \E h \in Headers : \E b \in BodiesOf(h) : SendRequest(h, b)
  \/ \E r \in inflight, m \in Media : SendFetched(r, m)
  \/ \E r \in inflight : SendDone(r)
  \/ \E h \in Headers : ContactsRequest(h)
  \/ \E r \in inflight : ContactsDone(r)
  \/ \E h \in Headers : GroupsRequest(h)
  \/ \E r \in inflight : GroupsDone(r)
  \/ \E h \in Headers : MembersRequest(h)
  \/ \E r \in inflight, chat \in Chats : MembersChat(r, chat)
  \/ \E r \in inflight : MembersDone(r)

Spec == Init /\ [][Next]_vars

\* The event loop runs a timer callback once its delay has elapsed; nothing
\* obliges a client to send a request or the library to emit an event.
LiveSpec == Spec /\ WF_vars(DelayElapsed) /\ WF_vars(RecoveryTimer)

\* ---- properties --------------------------------------------------------------
ValidHdr(h) == h.present /\ Len(h.words) >= 2 /\ h.words[2] = API_TOKEN
WrongHdr(h) == h.present /\ Len(h.words) >= 2 /\ h.words[2] # API_TOKEN
LiveClients == {c \in Clients : Live(c)}
InitOps == {"listen", "qrcode", "timer"}
GuardedOps == {"send", "contacts", "groups", "members"}
AuthOps == {"status", "qrcode", "logout", "send", "contacts", "groups", "members"}

\* C1: in every reachable state at most one constructed client is live, i.e. has
\* neither emitted 'disconnected' nor been logged out.
C1_AtMostOneLiveClient == Cardinality(LiveClients) <= 1

\* The condition C2 puts on every step.
C2_InitIdempotent_Step ==
  clientStatus \in {"connecting", "connected"}
     => constructed' = constructed /\ (last'.op \in InitOps => last'.made = Null)
\* C2: initialize() invoked from startup, the QR endpoint or a recovery timer
\* while status is connecting or connected constructs no client: every
\* construction starts from status disconnected.
C2_InitIdempotent == [][C2_InitIdempotent_Step]_vars

\* C2 witness: after startup a QR request arrived while connecting, and there is
\* still exactly one construction.
C2_Witness ==
  /\ last.op = "qrcode" /\ ValidHdr(last.hdr) /\ last.resp = "QRNotReady"
  /\ clientStatus = "connecting" /\ constructed = 1 /\ last.made = Null

\* C3: once a logout request that invoked the external logout has completed,
\* whether the call returned or threw, status is disconnected, the handle is
\* discarded and the pairing token is cleared.
C3_LogoutAlwaysResets ==
  last.op = "logout_done"
    => clientStatus = "disconnected" /\ whatsappClient = Null /\ qrCodeData = Null

\* The condition C4 puts on every step.
C4_OneRecoveryUnlessManualInit_Step ==
  last'.op = "timer" /\ timers # <<>>
     => /\ Head(timers).due
        /\ "init" \in Head(timers).marks
             => constructed' = constructed /\ last'.made = Null
\* C4: the recovery timer of a 'disconnected' event fires no earlier than the
\* delay, and makes no recovery attempt if a manual initialize() (QR endpoint)
\* moved status away from disconnected after the event.
C4_OneRecoveryUnlessManualInit == [][C4_OneRecoveryUnlessManualInit_Step]_vars

\* The condition C5 puts on every step.
C5_StaleTimerNoOp_Step ==
  last'.op = "timer" /\ timers # <<>>
     /\ Head(timers).marks \cap {"logout", "ready"} # {}
     => constructed' = constructed /\ clientStatus' = clientStatus
\* C5: a recovery timer is a no-op when it fires if a manual logout completed or
\* a reconnect succeeded after it was armed: it constructs no client and does
\* not change status.
C5_StaleTimerNoOp == [][C5_StaleTimerNoOp_Step]_vars

\* The condition C6 puts on every step.
C6_DocumentedEdges_Step ==
  clientStatus' # clientStatus =>
     \/ /\ clientStatus = "disconnected" /\ clientStatus' = "connecting"
        /\ last'.op \in InitOps
     \/ /\ clientStatus = "connecting" /\ clientStatus' = "connected"
        /\ last'.op = "ready"
     \/ /\ clientStatus = "connecting" /\ clientStatus' = "disconnected"
        /\ last'.op \in {"auth_failure", "disconnected", "logout_done"}
     \/ /\ clientStatus = "connected" /\ clientStatus' = "disconnected"
        /\ last'.op \in {"disconnected", "logout_done"}
\* C6: status changes only along the documented edges, each by its documented
\* cause; never disconnected -> connected, never connected -> connecting.
C6_DocumentedEdges == [][C6_DocumentedEdges_Step]_vars

\* The condition C7 puts on every step.
C7_GuardRejectsWhenNotReady_Step ==
  (last'.op \in GuardedOps /\ ValidHdr(last'.hdr)
      /\ (clientStatus # "connected" \/ whatsappClient = Null))
     => /\ last'.resp = "NotConnected"
        /\ last'.calls = {}
        /\ inflight' = inflight
        /\ UNCHANGED <<whatsappClient, qrCodeData, clientStatus, constructed>>
\* C7: an authenticated send, contacts, groups or group-members request that
\* arrives when status is not connected or no handle exists is answered
\* NotConnected, calls nothing on the external client, fetches no media and
\* changes nothing.
C7_GuardRejectsWhenNotReady == [][C7_GuardRejectsWhenNotReady_Step]_vars

\* C7 witness: a send arrived with a valid token while a handle exists but the
\* status is connecting, and was answered NotConnected.
C7_Witness ==
  /\ last.op = "send" /\ ValidHdr(last.hdr) /\ last.resp = "NotConnected"
  /\ whatsappClient # Null /\ clientStatus = "connecting"

\* C8: an admitted send or group-members request that resumes from its await
\* (media fetch, getChatById) calls sendMessage / getContactById only on a
\* handle that exists while status is connected, and when the session is no
\* longer connected it is not answered with a 500-class upstream failure.
C8_ResumeOnlyOnReadySession ==
  last.op \in {"send_fetched", "members_chat"}
    => /\ \A k \in last.calls : k.on # Null /\ k.st = "connected"
       /\ (clientStatus # "connected" \/ whatsappClient = Null)
            => last.resp # "UpstreamFailure"

\* The condition C9 puts on every step.
C9_AuthShortCircuits_Step ==
  last'.op \in AuthOps =>
     /\ ~last'.hdr.present => last'.resp = "Unauthorized"
     /\ WrongHdr(last'.hdr) => last'.resp = "Forbidden"
     /\ (~last'.hdr.present \/ WrongHdr(last'.hdr))
          => /\ UNCHANGED <<whatsappClient, qrCodeData, clientStatus, constructed,
                            phase, timers, inflight>>
             /\ last'.made = Null /\ last'.calls = {}
\* C9: on every endpoint but /health a request without Authorization header is
\* answered Unauthorized and one with a wrong bearer token Forbidden; such a
\* request changes no state, constructs no client and calls nothing.
C9_AuthShortCircuits == [][C9_AuthShortCircuits_Step]_vars

\* C9 witness: GET /api/qrcode without a header while no client exists was
\* answered Unauthorized and did not initialize.
C9_Witness ==
  /\ last.op = "qrcode" /\ ~last.hdr.present /\ last.resp = "Unauthorized"
  /\ whatsappClient = Null /\ clientStatus = "disconnected"

TornDownByEvent == last.op = "disconnected"
TornDownByLogout == last.op = "logout_done" /\ last.resp = "OK"

Session == <<whatsappClient, qrCodeData, clientStatus>>

\* What C11 says of the step in which GET /api/qrcode arrives.
QrDecision_Step ==
  (last'.op = "qrcode" /\ ValidHdr(last'.hdr)) =>
     IF clientStatus = "connected"
       THEN /\ last'.resp = "AlreadyConnected" /\ last'.made = Null
            /\ UNCHANGED <<Session, constructed, inflight>>
     ELSE IF whatsappClient = Null
       THEN /\ last'.resp = "Initializing"
            /\ constructed' = constructed + 1 /\ last'.made = constructed'
            /\ whatsappClient' = constructed' /\ clientStatus' = "connecting"
     ELSE IF qrCodeData = Null
       THEN /\ last'.resp = "QRNotReady" /\ last'.made = Null
            /\ UNCHANGED <<Session, constructed, inflight>>
     ELSE /\ last'.resp = "Pending" /\ last'.made = Null
          /\ QrReq(qrCodeData) \in inflight'
          /\ UNCHANGED <<Session, constructed>>
\* What C11 says of the response with a token: image and raw token are both the
\* token that was stored when the request arrived.
QrServed_Step ==
  (last'.op = "qrcode_done" /\ last'.resp = "QR") =>
     /\ \E r \in inflight \ inflight' : last'.data = <<r.tok, r.tok>>
     /\ UNCHANGED <<Session, constructed>>
C11_QrDeterminedByState_Step == QrDecision_Step /\ QrServed_Step
\* C11: an authenticated GET /api/qrcode is answered from the session state:
\* connected -> 'already connected', nothing constructed; else no client ->
\* exactly one client constructed, status connecting, 'initializing'; else no
\* token -> 'not yet available'; else the stored token is returned as image and
\* as raw token and the session is unchanged.
C11_QrDeterminedByState == [][C11_QrDeterminedByState_Step]_vars

SendsMessage(calls) == \E k \in calls : k.fn = "sendMessage"
Fetches(calls) == \E k \in calls : k.fn = "fetchMedia"

\* The condition C12 puts on every step.
C12_SendValidatesFirst_Step ==
  /\ (last'.op = "send" /\ ValidHdr(last'.hdr)
        /\ clientStatus = "connected" /\ whatsappClient # Null) =>
       /\ Len(last'.data) = 1
       /\ (last'.data[1].phone = <<>>
             \/ (last'.data[1].message = "" /\ last'.data[1].media_url = ""))
            => /\ last'.resp = "InvalidInput"
               /\ last'.calls = {} /\ inflight' = inflight
       /\ SendsMessage(last'.calls)
            => /\ last'.data[1].phone # <<>>
               /\ last'.data[1].message # "" /\ last'.data[1].media_url = ""
       /\ last'.data[1].media_url # "" => ~SendsMessage(last'.calls)
  /\ last'.op = "send_fetched" =>
       /\ Len(last'.data) = 1
       /\ last'.data[1] = Null
            => /\ last'.resp = "MediaFetchFailed" /\ last'.calls = {}
               /\ inflight' \subseteq inflight /\ inflight' # inflight
       /\ SendsMessage(last'.calls) => last'.data[1] # Null
\* C12: a send past the connected guard calls sendMessage only with a phone, a
\* message or media_url and, with a media_url, a payload from the media fetch:
\* no phone, or neither message nor media_url, is answered InvalidInput with no
\* fetch and no call; an absent payload is answered with the 400 media failure
\* before any sendMessage.
C12_SendValidatesFirst == [][C12_SendValidatesFirst_Step]_vars

\* C12 witness: a connected session answered InvalidInput to a body with a
\* phone but neither message nor media_url, without any call.
C12_Witness ==
  /\ last.op = "send" /\ last.resp = "InvalidInput" /\ last.calls = {}
  /\ last.data[1].phone # <<>> /\ last.data[1].message = ""
  /\ last.data[1].media_url = ""
  /\ clientStatus = "connected" /\ whatsappClient # Null

ResumedOps == {"send_fetched", "send_done", "contacts_done", "groups_done",
               "members_chat", "members_done"}

\* The condition C13 puts on every step.
C13_FailureKeepsSession_Step ==
  (last'.op \in ResumedOps /\ last'.resp = "UpstreamFailure")
     => UNCHANGED <<whatsappClient, qrCodeData, clientStatus>>
\* C13: when a call made on the external client by send, contacts, groups or
\* group-members raises, the request is answered with the 500-class failure and
\* status, handle and pairing token are left as they were.
C13_FailureKeepsSession == [][C13_FailureKeepsSession_Step]_vars

\* C13 witness: sendMessage raised on a connected session, which is still
\* connected with its handle after the 500 answer.
C13_Witness ==
  /\ last.op = "send_done" /\ last.resp = "UpstreamFailure"
  /\ clientStatus = "connected" /\ whatsappClient # Null
  /\ phase[whatsappClient] = "ready"

\* An entry the claim wants returned: not self, not a group, registered
RegisteredPerson(c) == ~c.isMe /\ ~c.isGroup /\ c.isWAContact

\* C14: the contacts response holds exactly the entries of getContacts that are
\* not self, not group-type and registered: no non-registered contact is
\* returned and no registered non-self non-group contact is left out.
C14_ContactsAreRegistered ==
  (last.op = "contacts_done" /\ last.resp = "OK")
     => last.data[2] = SelectSeq(last.data[1], RegisteredPerson)

\* C15: in every reachable state the pairing token is non-null only while
\* status is connecting.
C15_TokenOnlyWhileConnecting == qrCodeData # Null => clientStatus = "connecting"

\* C16: in every reachable state the handle is non-null exactly when status is
\* connecting or connected.
C16_HandleIffActive ==
  whatsappClient # Null <=> clientStatus \in {"connecting", "connected"}

HasDigit(p) == \E i \in 1..Len(p) : p[i] \in Digits

\* C17: every sendMessage goes to a destination made of at least one digit and
\* the fixed suffix, and a body whose phone has no digit is answered
\* InvalidInput without any external call.
C17_DestinationHasDigits ==
  /\ \A k \in last.calls :
        k.fn = "sendMessage"
          => /\ Len(k.arg) >= 2 /\ k.arg[Len(k.arg)] = "@c.us"
             /\ \A i \in 1..(Len(k.arg) - 1) : k.arg[i] \in Digits
  /\ (last.op = "send" /\ Len(last.data) = 1 /\ ~HasDigit(last.data[1].phone))
        => last.resp = "InvalidInput" /\ last.calls = {}

\* The condition C18 puts on every step.
C18_TokenOfCurrentClient_Step ==
  (last'.op = "qrcode" /\ last'.resp = "Pending") => qrCodeData = whatsappClient
\* C18: a pairing token that the QR endpoint picks to return was emitted by the
\* client that is the current handle, never by a client that has disconnected
\* or been replaced.
C18_TokenOfCurrentClient == [][C18_TokenOfCurrentClient_Step]_vars

EventOps == {"qr", "authenticated", "auth_failure", "ready", "disconnected"}

\* The condition C19 puts on every step.
C19_StaleEventsIgnored_Step ==
  (last'.op \in EventOps /\ whatsappClient # Null
      /\ last'.data[1] # whatsappClient)
     => UNCHANGED <<whatsappClient, qrCodeData, clientStatus, timers>>
\* C19: an event emitted by a client while another client is the current
\* handle leaves the session alone: the successor's handle, the status and the
\* token keep their values and no recovery timer is armed.
C19_StaleEventsIgnored == [][C19_StaleEventsIgnored_Step]_vars

\* The condition C20 puts on every step.
C20_LogoutResetsOwnHandle_Step ==
  (last'.op = "logout_done" /\ last'.resp = "OK"
      /\ whatsappClient # Null /\ whatsappClient # last'.data[1])
     => whatsappClient' = whatsappClient /\ clientStatus' = clientStatus
\* C20: when the external logout returns and the handle is by then a newer
\* client than the one logged out, the resumed logout neither nulls that handle
\* nor sets status to disconnected.
C20_LogoutResetsOwnHandle == [][C20_LogoutResetsOwnHandle_Step]_vars

====
